---- MODULE Spec2Model ----
(***************************************************************************)
(* Model of the migration workflow of backend/graph/workflow.py: the four  *)
(* agent nodes, the routing functions of the conditional edges, the graph  *)
(* built by create_workflow and its execution by run_workflow, together    *)
(* with the verdict computed by DockerValidator.validate_project and       *)
(* RuntimeValidatorAgent.execute.                                          *)
(*                                                                         *)
(* The graph is a LangGraph StateGraph.  A node receives the run state as  *)
(* a dict and returns it; the returned dict is what the graph keeps.  The  *)
(* function of a conditional edge receives a dict freshly read from the    *)
(* graph's state and only its return value (the name of the next node) is  *)
(* used: an assignment to a key of that dict changes the router's own      *)
(* copy, not the state the next node or the next router reads.  Mutable    *)
(* values (the errors list, the agent_costs dict) are passed by reference, *)
(* so initial_state of run_workflow sees what the nodes appended to them.  *)
(***************************************************************************)
EXTENDS Integers, Sequences, FiniteSets, TLC

\* ------------------------------------------------------------------ bounds
MaxRetriesBound == 3     \* max_retries ranges over 0..MaxRetriesBound
MaxSessions == 2         \* sessions (validate_project calls) on one Docker daemon
MaxLines == 3            \* lines of a requirements.txt, as split("\n") gives them
RecursionLimit == 9      \* supersteps app.invoke runs before it raises
                         \* GraphRecursionError (25 by default in LangGraph;
                         \* run_workflow does not configure it)

\* --------------------------------------------------------------- constants

None == "None"
NoCost == -1             \* result without "cost_report"
FaultMsg == "boom"       \* str(e) of an exception raised by a collaborator
SinkMsg == "sink down"   \* str(e) of an exception raised by the broadcaster
Broadcasters == {None, "ok", "raising"}

Costs == {1}             \* total_cost_usd of an agent that called the LLM, in units
OptCosts == Costs \cup {NoCost}

VARIABLES
    state,          \* the MigrationState kept by the graph
    pc,             \* "init", the node to run next, "end" (graph reached END), "done";
                    \* "route"/"routed" when a routing function is applied on its own
    prev,           \* the node that ran last ("none" before plan)
    steps,          \* supersteps executed by app.invoke
    route_state,    \* the dict the last routing function was called with, after the call
    hist,           \* bookkeeping: executions per node and the scenario flags
    outcome,        \* of run_workflow: "running", "returned", "raised"
    final_state,    \* the state run_workflow returned
    route_out,      \* the return value of the last routing function
    sandbox,        \* the Docker daemon and the DockerValidator in use: the containers
                    \* that exist, self.containers, and the last call and what it gave
    manifest,       \* a dependency manifest inside a container and the migration plan
                    \* applied to it
    daemon,         \* the Docker daemon shared by the runs that validate concurrently
    registry        \* migrations_db of the API server and its background tasks

vars == <<state, pc, prev, steps, route_state, hist, outcome, final_state, route_out,
          sandbox, manifest, daemon, registry>>

\* the variables of the workflow, and the values the other variables have
\* while it runs
wf == <<state, pc, prev, steps, route_state, hist, outcome, final_state, route_out>>
NoManifest == [ kind |-> "none" ]
NoDaemon == [ containers |-> {}, runs |-> << >> ]
NoRegistry == [ db |-> << >>, task |-> << >>, files |-> {} ]

\* ------------------------------------------------------------------ helpers
\* state["errors"].append(f"{prefix}: {msg}").  errors is modelled by the set
\* of the entries of the list: entries are only ever appended.
Append2(errs, prefix, msg) == errs \cup {<<prefix, msg>>}

\* Python truthiness of a dict/list-valued field
Truthy(v) == v \notin {None, "empty"}

\* state["agent_costs"][agent] = cost; state["total_cost"] += cost
TrackCost(s, agent, cost) ==
    IF cost = NoCost THEN s
    ELSE [s EXCEPT !.agent_costs = [a \in (DOMAIN s.agent_costs) \cup {agent} |->
                                       IF a = agent THEN cost ELSE s.agent_costs[a]],
                   !.total_cost = s.total_cost + cost]

\* outcomes of one broadcaster call: does it raise?
Emit(b) == IF b = "raising" THEN BOOLEAN ELSE {FALSE}

\* validation_data = result.get("validation_result", {}) of a result without it
NoValidationData ==
    [ status |-> None, build_success |-> FALSE, install_success |-> FALSE,
      runtime_success |-> FALSE, health_check_success |-> FALSE,
      tests_run |-> FALSE, tests_passed |-> FALSE ]

\* validation_result = None
NoResult ==
    [ kind |-> None, status |-> None, validation_result |-> NoValidationData,
      recommendation |-> None, overall_assessment |-> None, cost |-> NoCost,
      msg |-> None ]

create_initial_state(max_retries) ==
    [ migration_plan     |-> None,
      validation_result  |-> NoResult,
      validation_success |-> FALSE,
      fix_suggestions    |-> None,
      pr_url             |-> None,
      status             |-> "initializing",
      retry_count        |-> 0,
      max_retries        |-> max_retries,
      errors             |-> {},
      total_cost         |-> 0,
      agent_costs        |-> [a \in {} |-> 0],
      broadcaster        |-> None ]

\* ------------------------------------------------------------ plan node
\* Planner results: what MigrationPlannerAgent(...).execute(...) can give.
\* plan is None, "empty" ({}), "nodeps" ({"dependencies": {}}) or "deps".
Plans == {None, "empty", "nodeps", "deps"}
PlannerResults ==
    [kind : {"success"}, plan : Plans, cost : Costs, msg : {None}]
    \cup [kind : {"error"}, plan : {None}, cost : {NoCost}, msg : {FaultMsg, None}]
    \cup [kind : {"raise"}, plan : {None}, cost : {NoCost}, msg : {FaultMsg}]

\* the except block of a node: status, errors.append, error update
NodeExcept(s, status, prefix, msg, e3) ==
    [ state  |-> [s EXCEPT !.status = status,
                           !.errors = Append2(s.errors, prefix, msg)],
      raised |-> e3, msg |-> SinkMsg, sink |-> e3 \/ msg = SinkMsg ]

Returned(s) == [state |-> s, raised |-> FALSE, msg |-> None, sink |-> FALSE]
Raised(s, m) == [state |-> s, raised |-> TRUE, msg |-> m, sink |-> TRUE]

ErrorOf(res) == IF res.msg = None THEN "Unknown error" ELSE res.msg

migration_planner_node(s, res, e1, e2, e3) ==
    IF e1 THEN Raised(s, SinkMsg)
    ELSE IF res.kind = "raise"
    THEN NodeExcept(s, "error", "Migration planner error", res.msg, e3)
    ELSE IF res.kind = "success"
    THEN LET s1 == [s EXCEPT !.migration_plan = res.plan, !.status = "plan_created"]
         IN  IF res.plan = None
             THEN NodeExcept(s1, "error", "Migration planner error", "AttributeError", e3)
             ELSE IF e2
             THEN NodeExcept(s1, "error", "Migration planner error", SinkMsg, e3)
             ELSE Returned(TrackCost(s1, "migration_planner", res.cost))
    ELSE LET s1 == [s EXCEPT !.status = "error",
                             !.errors = Append2(s.errors, "Migration planning failed", ErrorOf(res))]
         IN  IF e2
             THEN NodeExcept(s1, "error", "Migration planner error", SinkMsg, e3)
             ELSE Returned(s1)

\* mutant: the plan itself is not looked at
should_validate_status_only(s) ==
    IF s.status = "plan_created" THEN "validate" ELSE "end"

should_validate(s) ==
    IF s.status = "plan_created" /\ Truthy(s.migration_plan) THEN "validate" ELSE "end"

\* -------------------------------------------------------- validate node
\* DockerValidator.validate_project: failAt is the phase that raised
\* ("none": no phase raised), health the result of the process check,
\* tests the outcome of _run_tests: "none" (no tests declared), "pass",
\* "fail", "error_early" (exception before tests_found was set) and
\* "error_late" (exception after it).
Phases == {"create", "copy", "apply", "install", "start", "health", "none"}
TestOutcomes == {"none", "pass", "fail", "error_early", "error_late"}

Reached(failAt, phase) ==
    LET ord == [p \in Phases |->
                  CASE p = "create" -> 1 [] p = "copy" -> 2 [] p = "apply" -> 3
                    [] p = "install" -> 4 [] p = "start" -> 5 [] p = "health" -> 6
                    [] p = "none" -> 7]
    IN  ord[failAt] > ord[phase]

validate_project(failAt, health, tests) ==
    LET done      == failAt = "none"
        healthy   == done /\ health
        tests_run == done /\ tests \in {"pass", "fail", "error_late"}
        passed    == done /\ tests = "pass"
    IN  [ status               |-> IF healthy /\ (tests_run => passed) THEN "success" ELSE "error",
          build_success        |-> Reached(failAt, "create"),
          install_success      |-> Reached(failAt, "install"),
          runtime_success      |-> Reached(failAt, "start"),
          health_check_success |-> healthy,
          tests_run            |-> tests_run,
          tests_passed         |-> passed ]

SandboxVerdicts ==
    { validate_project(f, h, t) : f \in Phases, h \in BOOLEAN, t \in TestOutcomes }

Recommendations == {"proceed", "fix_required", None}

\* RuntimeValidatorAgent.execute: vr is what validate_project returned,
\* llm the recommendation of the LLM analysis ("raise": the analysis raised).
RuntimeValidatorAgent_execute(vr, llm, cost) ==
    IF vr.status = "success" /\ vr.build_success /\ vr.install_success
         /\ vr.runtime_success /\ vr.health_check_success
    THEN [ kind |-> "result", status |-> "success", validation_result |-> vr,
           recommendation |-> "proceed", overall_assessment |-> None, cost |-> 0,
           msg |-> None ]
    ELSE IF llm = "raise"
    THEN [ kind |-> "result", status |-> "error", validation_result |-> NoValidationData,
           recommendation |-> None, overall_assessment |-> None, cost |-> NoCost,
           msg |-> FaultMsg ]
    ELSE [ kind |-> "result", status |-> "success", validation_result |-> vr,
           recommendation |-> llm, overall_assessment |-> None, cost |-> cost,
           msg |-> None ]

\* the result the validator mock of the workflow tests returns: the verdict
\* is at the top level of the dict ("overall_assessment": "proceed"), there
\* is no "validation_result" and no "analysis" key
MockValidatorResult ==
    [ kind |-> "result", status |-> "success", validation_result |-> NoValidationData,
      recommendation |-> None, overall_assessment |-> "proceed", cost |-> 1,
      msg |-> None ]

\* what RuntimeValidatorAgent(...).execute(...) can give the node; the
\* constructor (LLM client, Docker connection) can raise past execute's try
ValidatorResults ==
    { RuntimeValidatorAgent_execute(vr, llm, c) :
        vr \in SandboxVerdicts, llm \in Recommendations \cup {"raise"}, c \in Costs }
    \cup { [ kind |-> "raise", status |-> None, validation_result |-> NoValidationData,
             recommendation |-> None, overall_assessment |-> None, cost |-> NoCost,
             msg |-> FaultMsg ] }
    \cup { MockValidatorResult }

\* mutant: the status of the sandbox result is not looked at
runtime_validator_node_trusts_analysis(s, res, e1, e2, e3) ==
    LET exc(s0, m) == NodeExcept([s0 EXCEPT !.validation_success = FALSE],
                                 "error", "Runtime validator error", m, e3)
    IN
    IF e1 THEN Raised(s, SinkMsg)
    ELSE IF res.kind = "raise" THEN exc(s, res.msg)
    ELSE LET ok == res.status = "success" /\ res.recommendation = "proceed"
             s1 == [s EXCEPT !.validation_result = res,
                             !.validation_success = ok,
                             !.status = IF ok THEN "validated" ELSE "validation_failed"]
         IN  IF e2 THEN exc(s1, SinkMsg)
             ELSE Returned(TrackCost(s1, "runtime_validator", res.cost))

runtime_validator_node(s, res, e1, e2, e3) ==
    LET exc(s0, m) == NodeExcept([s0 EXCEPT !.validation_success = FALSE],
                                 "error", "Runtime validator error", m, e3)
    IN
    IF e1 THEN Raised(s, SinkMsg)
    ELSE IF res.kind = "raise" THEN exc(s, res.msg)
    ELSE LET ok == res.status = "success"
                   /\ res.validation_result.status = "success"
                   /\ res.recommendation = "proceed"
             s1 == [s EXCEPT !.validation_result = res,
                             !.validation_success = ok,
                             !.status = IF ok THEN "validated" ELSE "validation_failed"]
         IN  IF e2 THEN exc(s1, SinkMsg)
             ELSE Returned(TrackCost(s1, "runtime_validator", res.cost))

\* mutant: the retry budget is compared with <= instead of <
should_retry_or_deploy_le(s) ==
    IF s.validation_success THEN "deploy"
    ELSE IF s.retry_count <= s.max_retries THEN "analyze"
    ELSE "end"

\* mutant: the retry budget is looked at before the verdict
should_retry_or_deploy_budget_first(s) ==
    IF s.retry_count < s.max_retries /\ ~s.validation_success THEN "analyze"
    ELSE IF s.retry_count < s.max_retries THEN "deploy"
    ELSE "end"

should_retry_or_deploy(s) ==
    IF s.validation_success THEN "deploy"
    ELSE IF s.retry_count < s.max_retries THEN "analyze"
    ELSE "end"

\* --------------------------------------------------------- analyze node
\* Analyzer results: fixes is result["analysis"].get("fix_suggestions", []):
\* "empty" ([] or missing) or "fixes" (a non-empty list); None is an analysis
\* whose fix_suggestions is null.
FixLists == {None, "empty", "fixes"}
AnalyzerResults ==
    [kind : {"success"}, fixes : FixLists, cost : Costs, msg : {None}]
    \cup [kind : {"error"}, fixes : {None}, cost : {NoCost}, msg : {FaultMsg, None}]
    \cup [kind : {"raise"}, fixes : {None}, cost : {NoCost}, msg : {FaultMsg}]

error_analyzer_node(s, res, e1, e2, e3) ==
    IF e1 THEN Raised(s, SinkMsg)
    ELSE IF res.kind = "raise"
    THEN NodeExcept(s, "error", "Error analyzer error", res.msg, e3)
    ELSE IF res.kind = "success"
    THEN LET s1 == [s EXCEPT !.fix_suggestions = res.fixes, !.status = "analyzed"]
         IN  IF res.fixes = None
             THEN NodeExcept(s1, "error", "Error analyzer error", "TypeError", e3)
             ELSE IF e2
             THEN NodeExcept(s1, "error", "Error analyzer error", SinkMsg, e3)
             ELSE Returned(TrackCost(s1, "error_analyzer", res.cost))
    ELSE LET s1 == [s EXCEPT !.status = "error",
                             !.errors = Append2(s.errors, "Error analysis failed", ErrorOf(res))]
         IN  IF e2
             THEN NodeExcept(s1, "error", "Error analyzer error", SinkMsg, e3)
             ELSE Returned(s1)

\* mutant: the fix list is not looked at
should_retry_validation_any_analysis(s) ==
    IF s.status = "analyzed"
    THEN [state |-> [s EXCEPT !.retry_count = s.retry_count + 1], next |-> "validate"]
    ELSE [state |-> s, next |-> "end"]

\* the routing function after analyze; state is the dict it was called with
\* after the call, next its return value
should_retry_validation(s) ==
    IF s.status = "analyzed" /\ Truthy(s.fix_suggestions)
    THEN [state |-> [s EXCEPT !.retry_count = s.retry_count + 1], next |-> "validate"]
    ELSE [state |-> s, next |-> "end"]

\* ---------------------------------------------------------- deploy node
DeployerResults ==
    [kind : {"success"}, pr_url : {"pr", None}, cost : OptCosts, msg : {None}]
    \cup [kind : {"error"}, pr_url : {None}, cost : {NoCost}, msg : {FaultMsg, None}]
    \cup [kind : {"raise"}, pr_url : {None}, cost : {NoCost}, msg : {FaultMsg}]

staging_deployer_node(s, res, e1, e2, e3) ==
    IF e1 THEN Raised(s, SinkMsg)
    ELSE IF res.kind = "raise"
    THEN NodeExcept(s, "deployment_failed", "Staging deployer error", res.msg, e3)
    ELSE IF res.kind = "success"
    THEN LET s1 == [s EXCEPT !.pr_url = res.pr_url, !.status = "deployed"]
         IN  IF e2
             THEN NodeExcept(s1, "deployment_failed", "Staging deployer error", SinkMsg, e3)
             ELSE Returned(TrackCost(s1, "staging_deployer", res.cost))
    ELSE LET s1 == [s EXCEPT !.status = "deployment_failed",
                             !.errors = Append2(s.errors, "Deployment failed", ErrorOf(res))]
         IN  IF e2
             THEN NodeExcept(s1, "deployment_failed", "Staging deployer error", SinkMsg, e3)
             ELSE Returned(s1)

\* mutant: a failed deployment goes back to validation
deployment_complete_retry(s) ==
    IF s.status = "deployed" THEN "end" ELSE "validate"

deployment_complete(s) == "end"

\* ----------------------------------------------------- sandbox sessions
\* DockerValidator against the Docker daemon.  sandbox.docker is the set of
\* the containers that exist in the daemon (all the sessions of a project use
\* the same container name, ai-modernizer-<project>), sandbox.tracked is
\* self.containers of the validator in use, sandbox.cleanup_containers its
\* flag.  Containers are numbered by the session that created them; StaleId
\* is a container of that name left by an earlier process.
StaleId == 0
NoContainer == -1        \* container = None

\* result["errors"] entries, as <<text, captured output>>
InstallFailed == <<"Dependency installation failed", "install output">>
HealthFailed == <<"Health check failed", "">>
TestsFailed == <<"Tests failed", "test_summary">>
PhaseRaised == <<FaultMsg, "">>

\* what _create_container can hit: "image" (unsupported project type),
\* "stale" (removing the old container of the same name raised, which is
\* swallowed), "create" (containers.create raised), "start" (container.start
\* raised)
ProvisionFaults == {"none", "image", "stale", "create", "start"}

\* mutant: no try/except around stop and remove
_cleanup_container_unguarded(w, c, ok) ==
    IF c \in w.docker /\ ok
    THEN [ w |-> [w EXCEPT !.docker = @ \ {c}, !.tracked = @ \ {c}],
           raised |-> FALSE, fault |-> FALSE ]
    ELSE [ w |-> w, raised |-> TRUE, fault |-> c \in w.docker ]

\* _cleanup_container(container): ok says whether stop and remove of an
\* existing container go through; stop of a container that does not exist
\* raises NotFound.  Every exception is logged and swallowed, and then the
\* container stays in self.containers.  fault: a stop/remove of an existing
\* container raised.
_cleanup_container(w, c, ok) ==
    IF c \in w.docker /\ ok
    THEN [ w |-> [w EXCEPT !.docker = @ \ {c}, !.tracked = @ \ {c}],
           raised |-> FALSE, fault |-> FALSE ]
    ELSE [ w |-> w, raised |-> FALSE, fault |-> c \in w.docker ]

RECURSIVE CleanupEach(_, _, _)
CleanupEach(r, cs, ok) ==
    IF cs = {} \/ r.raised THEN r
    ELSE LET c == CHOOSE x \in cs : TRUE
             n == _cleanup_container(r.w, c, ok)
         IN  CleanupEach([ w |-> n.w, raised |-> n.raised, fault |-> r.fault \/ n.fault ],
                         cs \ {c}, ok)

\* cleanup_all(): for container in list(self.containers)
cleanup_all(w, ok) ==
    IF ~w.cleanup_containers
    THEN [ w |-> w, raised |-> FALSE, fault |-> FALSE ]
    ELSE CleanupEach([ w |-> w, raised |-> FALSE, fault |-> FALSE ], w.tracked, ok)

\* _create_container: the container is appended to self.containers after
\* container.start() returned, and it is returned to validate_project only
\* then.  made: the containers the call created in the daemon.
_create_container(w, id, prov) ==
    IF prov = "image"
    THEN [ w |-> w, container |-> NoContainer, made |-> {} ]
    ELSE LET old == IF prov = "stale" THEN w.docker ELSE {}
         IN  IF prov = "create" \/ old # {}       \* a name in use: create raises
             THEN [ w |-> [w EXCEPT !.docker = old], container |-> NoContainer,
                    made |-> {} ]
             ELSE IF prov = "start"
             THEN [ w |-> [w EXCEPT !.docker = {id}], container |-> NoContainer,
                    made |-> {id} ]
             ELSE [ w |-> [w EXCEPT !.docker = {id}, !.tracked = @ \cup {id}],
                    container |-> id, made |-> {id} ]

\* mutant: a phase that raised does not end the session
validate_project_attempted_all(failAt) ==
    (Phases \ {"none"}) \cup {"tests"}

\* the phases validate_project called: those before the one that raised and
\* that one; _run_tests is called whenever no phase raised
validate_project_attempted(failAt) ==
    { p \in Phases \ {"none"} : Reached(failAt, p) \/ p = failAt }
        \cup (IF failAt = "none" THEN {"tests"} ELSE {})

\* result["errors"] and the keys of result["logs"] of validate_project;
\* exit: the install command returned a non-zero exit code (RuntimeError with
\* the output) rather than exec_run raising
validate_project_report(failAt, exit, health, tests) ==
    [ errors |-> IF failAt = "install" /\ exit THEN <<InstallFailed>>
                 ELSE IF failAt # "none" THEN <<PhaseRaised>>
                 ELSE IF ~health THEN <<HealthFailed>>
                 ELSE IF tests \in {"fail", "error_late"} THEN <<TestsFailed>>
                 ELSE <<>>,
      logs |-> { k \in {"install", "start", "health"} : Reached(failAt, k) }
                   \cup (IF failAt = "none" THEN {"tests"} ELSE {}),
      attempted |-> validate_project_attempted(failAt) ]

NoReport == [ errors |-> <<>>, logs |-> {}, attempted |-> {} ]

\* mutant: the finally block keeps the container
validate_project_finally_keeps(w, c, ok) ==
    [ w |-> w, raised |-> FALSE, fault |-> FALSE ]

\* the finally block of validate_project
validate_project_finally(w, c, ok) ==
    IF c # NoContainer /\ w.cleanup_containers
    THEN _cleanup_container(w, c, ok)
    ELSE [ w |-> w, raised |-> FALSE, fault |-> FALSE ]

\* the test phase as the project and the daemon give it: declared says
\* whether the project declares tests, outcome what _run_tests met
TestCases ==
    { tc \in [declared : BOOLEAN, outcome : TestOutcomes] :
        /\ tc.outcome = "none" => ~tc.declared
        /\ tc.outcome \in {"pass", "fail", "error_late"} => tc.declared }

\* one call of validate_project on the daemon and validator w: id numbers the
\* container, prov and failAt say where provisioning and the phases fail
validate_project_session(w, id, prov, failAt, exit, health, tests, ok) ==
    LET cr == _create_container(w, id, prov)
        fa == IF cr.container = NoContainer THEN "create" ELSE failAt
        fin == validate_project_finally(cr.w, cr.container, ok)
    IN  [ w |-> fin.w, fault |-> fin.fault, container |-> cr.container,
          made |-> cr.made, failAt |-> fa,
          result |-> validate_project(fa, health, tests),
          report |-> validate_project_report(fa, exit, health, tests) ]

\* the last call on the sandbox
NoLast ==
    [ op |-> "none", container |-> NoContainer, made |-> {}, cleanup |-> FALSE,
      fault |-> FALSE, raised |-> FALSE, was_live |-> FALSE,
      tracked_before |-> {}, tracked_after |-> {},
      result |-> NoValidationData, report |-> NoReport,
      failAt |-> "none", install_exit |-> FALSE, declared |-> FALSE, tests |-> "none" ]

NoSandbox ==
    [ docker |-> {}, tracked |-> {}, cleanup_containers |-> TRUE,
      sessions |-> 0, handles |-> {}, last |-> NoLast ]

\* ------------------------------------------------------------ run_workflow
Nodes == {"plan", "validate", "analyze", "deploy"}

NoHist ==
    [ runs        |-> [n \in Nodes |-> 0],
      faults      |-> {},       \* error-list prefixes of the collaborator exceptions raised
      sink_raised |-> FALSE,    \* some broadcaster call raised
      all_failed  |-> TRUE,     \* every Validate so far failed
      all_fixes   |-> TRUE,     \* every Diagnose so far returned a non-empty fix list
      verdict_ok  |-> FALSE,    \* the most recent Validate got a passing sandbox verdict
      planner     |-> None,     \* what the planner gave: kind of result, and the plan
      plan        |-> None,
      diagnosis   |-> None ]    \* what the most recent Diagnose gave: "raise", "error",
                                \* or the fix list of a success result

Ran(h, n, fault, sink) ==
    [h EXCEPT !.runs[n] = @ + 1,
              !.faults = IF fault = None THEN @ ELSE @ \cup {fault},
              !.sink_raised = @ \/ sink]

Init ==
    /\ \E mr \in 0..MaxRetriesBound, b \in Broadcasters :
          state = [create_initial_state(mr) EXCEPT !.broadcaster = b]
    /\ pc = "init"
    /\ prev = "none"
    /\ steps = 0
    /\ route_state = state
    /\ route_out = None
    /\ hist = NoHist
    /\ outcome = "running"
    /\ final_state = state
    /\ sandbox = NoSandbox
    /\ manifest = NoManifest /\ daemon = NoDaemon /\ registry = NoRegistry

\* the except clause of run_workflow: s is the state of the graph when
\* app.invoke raised msg, e says whether the error update raises
run_workflow_except(s, msg, e) ==
    /\ final_state' = [create_initial_state(s.max_retries) EXCEPT
                          !.broadcaster = s.broadcaster,
                          !.status = "error",
                          !.errors = Append2(s.errors, "Workflow execution failed", msg),
                          !.agent_costs = s.agent_costs]
    /\ outcome' = IF e THEN "raised" ELSE "returned"
    /\ state' = [state EXCEPT !.errors = final_state'.errors, !.agent_costs = s.agent_costs]
    /\ pc' = "done"
    /\ UNCHANGED <<route_state, route_out, sandbox, manifest, daemon, registry>>

\* run_workflow up to app.invoke: the workflow_start update is sent outside
\* the try
StartRun ==
    /\ pc = "init"
    /\ \E e \in Emit(state.broadcaster) :
          /\ pc' = IF e THEN "done" ELSE "plan"
          /\ outcome' = IF e THEN "raised" ELSE outcome
          /\ hist' = [hist EXCEPT !.sink_raised = e]
    /\ UNCHANGED <<state, prev, steps, route_state, route_out, final_state, sandbox, manifest, daemon, registry>>

\* one superstep of app.invoke: node n returned r and the router of its
\* conditional edge returned next
Superstep(n, r, rstate, next) ==
    /\ state' = r.state
    /\ route_state' = rstate
    /\ route_out' = next
    /\ pc' = next
    /\ UNCHANGED <<outcome, final_state, sandbox, manifest, daemon, registry>>

PlanStep ==
    /\ pc = "plan" /\ steps < RecursionLimit
    /\ prev' = "plan" /\ steps' = steps + 1
    /\ \E res \in PlannerResults, e1, e2, e3 \in Emit(state.broadcaster) :
          LET r == migration_planner_node(state, res, e1, e2, e3)
              h == Ran(hist, "plan",
                       IF res.kind = "raise" THEN "Migration planner error" ELSE None,
                       r.sink)
          IN  /\ hist' = [h EXCEPT !.planner = res.kind, !.plan = res.plan]
              /\ IF r.raised
                 THEN \E e \in Emit(state.broadcaster) : run_workflow_except(r.state, r.msg, e)
                 ELSE Superstep("plan", r, r.state, should_validate(r.state))

\* the sandbox verdict the agent returned is a passing one
PassingVerdict(res) ==
    /\ res.kind = "result" /\ res.status = "success"
    /\ res.validation_result.status = "success"
    /\ res.validation_result.install_success
    /\ res.validation_result.runtime_success
    /\ res.validation_result.health_check_success
    /\ (res.validation_result.tests_run => res.validation_result.tests_passed)
    /\ res.recommendation = "proceed"

ValidateStep ==
    /\ pc = "validate" /\ steps < RecursionLimit
    /\ prev' = "validate" /\ steps' = steps + 1
    /\ \E res \in ValidatorResults, e1, e2, e3 \in Emit(state.broadcaster) :
          LET r == runtime_validator_node(state, res, e1, e2, e3)
              h == Ran(hist, "validate",
                       IF res.kind = "raise" THEN "Runtime validator error" ELSE None,
                       r.sink)
          IN  /\ hist' = [h EXCEPT !.all_failed = @ /\ ~r.state.validation_success,
                                   !.verdict_ok = PassingVerdict(res)]
              /\ IF r.raised
                 THEN \E e \in Emit(state.broadcaster) : run_workflow_except(r.state, r.msg, e)
                 ELSE Superstep("validate", r, r.state, should_retry_or_deploy(r.state))

AnalyzeStep ==
    /\ pc = "analyze" /\ steps < RecursionLimit
    /\ prev' = "analyze" /\ steps' = steps + 1
    /\ \E res \in AnalyzerResults, e1, e2, e3 \in Emit(state.broadcaster) :
          LET r == error_analyzer_node(state, res, e1, e2, e3)
              h == Ran(hist, "analyze",
                       IF res.kind = "raise" THEN "Error analyzer error" ELSE None,
                       r.sink)
              route == should_retry_validation(r.state)
          IN  /\ hist' = [h EXCEPT !.all_fixes = @ /\ res.kind = "success" /\ res.fixes = "fixes",
                                   !.diagnosis = IF res.kind = "success" THEN res.fixes ELSE res.kind]
              /\ IF r.raised
                 THEN \E e \in Emit(state.broadcaster) : run_workflow_except(r.state, r.msg, e)
                 ELSE Superstep("analyze", r, route.state, route.next)

DeployStep ==
    /\ pc = "deploy" /\ steps < RecursionLimit
    /\ prev' = "deploy" /\ steps' = steps + 1
    /\ \E res \in DeployerResults, e1, e2, e3 \in Emit(state.broadcaster) :
          LET r == staging_deployer_node(state, res, e1, e2, e3)
          IN  /\ hist' = Ran(hist, "deploy",
                             IF res.kind = "raise" THEN "Staging deployer error" ELSE None,
                             r.sink)
              /\ IF r.raised
                 THEN \E e \in Emit(state.broadcaster) : run_workflow_except(r.state, r.msg, e)
                 ELSE Superstep("deploy", r, r.state, deployment_complete(r.state))

\* app.invoke ran RecursionLimit supersteps and a node is still to run
RecursionError ==
    /\ pc \in Nodes /\ steps >= RecursionLimit
    /\ \E e \in Emit(state.broadcaster) :
          /\ run_workflow_except(state, "Recursion limit", e)
          /\ hist' = [hist EXCEPT !.sink_raised = @ \/ e]
    /\ UNCHANGED <<prev, steps>>

\* app.invoke returned: the workflow_complete update is sent inside the try
Complete ==
    /\ pc = "end"
    /\ \E e1 \in Emit(state.broadcaster) :
          IF e1
          THEN /\ \E e \in Emit(state.broadcaster) : run_workflow_except(state, SinkMsg, e)
               /\ hist' = [hist EXCEPT !.sink_raised = TRUE]
          ELSE /\ final_state' = state
               /\ outcome' = "returned"
               /\ pc' = "done"
               /\ UNCHANGED <<state, route_state, route_out, hist>>
    /\ UNCHANGED <<prev, steps, sandbox, manifest, daemon, registry>>

Next ==
    \/ StartRun
    \/ PlanStep
    \/ ValidateStep
    \/ AnalyzeStep
    \/ DeployStep
    \/ RecursionError
    \/ Complete

Spec == Init /\ [][Next]_vars

\* ------------------------------------------- routing functions on their own
\* The routing functions applied to an arbitrary MigrationState, as the unit
\* tests of TestWorkflowRouting call them.
Statuses == {"initializing", "plan_created", "validated", "validation_failed",
             "analyzed", "deployed", "deployment_failed", "error"}

RouteInputs ==
    { [create_initial_state(mr) EXCEPT !.status = st, !.migration_plan = p,
                                       !.validation_success = vs, !.retry_count = rc,
                                       !.fix_suggestions = fx] :
        mr \in 0..MaxRetriesBound, st \in Statuses, p \in Plans, vs \in BOOLEAN,
        rc \in 0..(MaxRetriesBound + 1), fx \in FixLists }

InitRoute ==
    /\ state \in RouteInputs
    /\ pc = "route"
    /\ prev = "none"
    /\ steps = 0
    /\ route_state = state
    /\ route_out = None
    /\ hist = NoHist
    /\ outcome = "running"
    /\ final_state = state
    /\ sandbox = NoSandbox
    /\ manifest = NoManifest /\ daemon = NoDaemon /\ registry = NoRegistry

Routed(fn, rstate, next) ==
    /\ pc = "route"
    /\ pc' = "routed"
    /\ prev' = fn
    /\ route_state' = rstate
    /\ route_out' = next
    /\ UNCHANGED <<state, steps, hist, outcome, final_state, sandbox, manifest, daemon, registry>>

RouteShouldValidate == Routed("should_validate", state, should_validate(state))

RouteShouldRetryOrDeploy ==
    Routed("should_retry_or_deploy", state, should_retry_or_deploy(state))

RouteShouldRetryValidation ==
    Routed("should_retry_validation", should_retry_validation(state).state,
           should_retry_validation(state).next)

RouteDeploymentComplete ==
    Routed("deployment_complete", state, deployment_complete(state))

NextRoute ==
    \/ RouteShouldValidate
    \/ RouteShouldRetryOrDeploy
    \/ RouteShouldRetryValidation
    \/ RouteDeploymentComplete

SpecRoute == InitRoute /\ [][NextRoute]_vars

\* --------------------------------------------- sandbox sessions on their own
\* The calls on a DockerValidator and RuntimeValidatorAgent.execute, in any
\* order, on one Docker daemon.
InitSandbox ==
    /\ state = create_initial_state(0)
    /\ pc = "sandbox"
    /\ prev = "none"
    /\ steps = 0
    /\ route_state = state
    /\ route_out = None
    /\ hist = NoHist
    /\ outcome = "running"
    /\ final_state = state
    /\ \E stale, flag \in BOOLEAN :
          sandbox = [NoSandbox EXCEPT !.docker = IF stale THEN {StaleId} ELSE {},
                                      !.cleanup_containers = flag]
    /\ manifest = NoManifest /\ daemon = NoDaemon /\ registry = NoRegistry

SandboxCall(sb) ==
    /\ pc = "sandbox"
    /\ sandbox' = sb
    /\ UNCHANGED <<state, pc, prev, steps, route_state, hist, outcome, final_state,
                   route_out, manifest, daemon, registry>>

\* the inputs of one session; an input that the session cannot reach (the
\* exit code of an install that did not run, the tests of a session that
\* stopped before them) has one value
SessionInputs ==
    { in \in [ prov : ProvisionFaults, failAt : Phases \ {"create"}, exit : BOOLEAN,
               health : BOOLEAN, tests : TestCases ] :
        /\ in.exit => in.failAt = "install"
        /\ in.failAt # "none" => (in.health /\ in.tests.outcome = "none")
        /\ in.prov \in {"image", "create", "start"} => in.failAt = "none" }

SessionLast(op, w, s, in, fault) ==
    [ NoLast EXCEPT !.op = op, !.container = s.container, !.made = s.made,
                    !.cleanup = w.cleanup_containers, !.fault = fault,
                    !.tracked_before = w.tracked,
                    !.was_live = s.container # NoContainer,
                    !.result = s.result, !.report = s.report, !.failAt = s.failAt,
                    !.install_exit = (s.failAt = "install" /\ in.exit),
                    !.declared = (s.failAt = "none" /\ in.tests.declared),
                    !.tests = IF s.failAt = "none" THEN in.tests.outcome ELSE "none" ]

Handles(s) == IF s.container = NoContainer THEN {} ELSE {s.container}

\* DockerValidator(cleanup_containers=flag) takes the place of the validator
\* in use, whose __del__ calls cleanup_all
NewValidator ==
    /\ pc = "sandbox"
    /\ \E flag, ok \in BOOLEAN :
        LET d == cleanup_all(sandbox, ok)
        IN  SandboxCall([d.w EXCEPT !.tracked = {}, !.cleanup_containers = flag,
                                    !.last = [NoLast EXCEPT !.op = "DockerValidator",
                                                            !.fault = d.fault,
                                                            !.tracked_before = sandbox.tracked]])

\* validator.validate_project(...)
ValidateProject ==
    /\ sandbox.sessions < MaxSessions
    /\ \E in \in SessionInputs, ok \in BOOLEAN :
          /\ in.prov = "stale" => sandbox.docker # {}
          /\ LET id == sandbox.sessions + 1
                 s == validate_project_session(sandbox, id, in.prov, in.failAt, in.exit,
                                               in.health, in.tests.outcome, ok)
             IN  SandboxCall([s.w EXCEPT
                    !.sessions = id,
                    !.handles = @ \cup Handles(s),
                    !.last = [SessionLast("validate_project", sandbox, s, in, s.fault)
                                 EXCEPT !.tracked_after = s.w.tracked]])

\* validator.cleanup_all()
CleanupAll ==
    /\ pc = "sandbox"
    /\ \E ok \in BOOLEAN :
        LET r == cleanup_all(sandbox, ok)
        IN  SandboxCall([r.w EXCEPT
               !.last = [NoLast EXCEPT !.op = "cleanup_all", !.raised = r.raised,
                                       !.fault = r.fault,
                                       !.cleanup = sandbox.cleanup_containers,
                                       !.was_live = (sandbox.tracked \cap sandbox.docker # {}),
                                       !.tracked_before = sandbox.tracked,
                                       !.tracked_after = r.w.tracked]])

\* validator._cleanup_container(c) for a container a session of this daemon
\* returned
CleanupContainer ==
    /\ pc = "sandbox"
    /\ \E c \in sandbox.handles, ok \in BOOLEAN :
        LET r == _cleanup_container(sandbox, c, ok)
        IN  SandboxCall([r.w EXCEPT
               !.last = [NoLast EXCEPT !.op = "_cleanup_container", !.container = c,
                                       !.raised = r.raised, !.fault = r.fault,
                                       !.cleanup = sandbox.cleanup_containers,
                                       !.was_live = (c \in sandbox.docker),
                                       !.tracked_before = sandbox.tracked,
                                       !.tracked_after = r.w.tracked]])

\* RuntimeValidatorAgent.execute: its own DockerValidator with
\* cleanup_containers=True, validate_project, the analysis, cleanup_all in the
\* try or in the except clause, and __del__ of the validator when execute
\* returns.  up: the Docker daemon answers the constructor's ping.
Execute ==
    /\ sandbox.sessions < MaxSessions
    /\ \E up \in BOOLEAN, in \in SessionInputs, ok1, ok2, ok3 \in BOOLEAN :
          /\ in.prov = "stale" => sandbox.docker # {}
          /\ LET id == sandbox.sessions + 1
                 w0 == [sandbox EXCEPT !.tracked = {}, !.cleanup_containers = TRUE]
                 s  == validate_project_session(w0, id, in.prov, in.failAt, in.exit,
                                                in.health, in.tests.outcome, ok1)
                 c2 == cleanup_all(s.w, ok2)
                 c3 == cleanup_all(c2.w, ok3)
             IN  IF ~up
                 THEN SandboxCall([sandbox EXCEPT !.last = [NoLast EXCEPT !.op = "execute"]])
                 ELSE SandboxCall([sandbox EXCEPT
                        !.docker = c3.w.docker,
                        !.sessions = id,
                        !.handles = @ \cup Handles(s),
                        !.last = [SessionLast("execute", w0, s, in,
                                              s.fault \/ c2.fault \/ c3.fault)
                                     EXCEPT !.tracked_after = c3.w.tracked]])

NextSandbox ==
    \/ NewValidator
    \/ ValidateProject
    \/ CleanupAll
    \/ CleanupContainer
    \/ Execute

SpecSandbox == InitSandbox /\ [][NextSandbox]_vars

\* --------------------------------------------------- change-set application
\* _apply_migration_plan on the manifest of the project copy in a container.
\* A plan maps dependency names to [action, target]; target NoTarget is a
\* missing or empty target_version.
Names == {"a", "b"}
NoTarget == 0
Target == 3
DepInfos ==
    { [action |-> "upgrade", target |-> Target],
      [action |-> "upgrade", target |-> NoTarget],
      [action |-> "remove", target |-> NoTarget],
      [action |-> "keep", target |-> NoTarget],
      [action |-> "other", target |-> NoTarget] }
ChangeSets == UNION { [D -> DepInfos] : D \in SUBSET Names }

\* package.json: two dependency groups, each a map from name to version
Groups == UNION { [D -> {1, 2}] : D \in SUBSET Names }
PackageJsons == [ dependencies : Groups, devDependencies : Groups ]

\* mutant: the group is rebuilt from the names of the plan
update_group_of_plan(g, plan) ==
    [ n \in { m \in DOMAIN g : m \in DOMAIN plan /\ plan[m].action # "remove" } |->
        IF plan[n].action = "upgrade" /\ plan[n].target # NoTarget
        THEN plan[n].target ELSE g[n] ]

\* the loop of _update_package_json on one group
update_group(g, plan) ==
    [ n \in { m \in DOMAIN g : ~(m \in DOMAIN plan /\ plan[m].action = "remove") } |->
        IF n \in DOMAIN plan /\ plan[n].action = "upgrade" /\ plan[n].target # NoTarget
        THEN plan[n].target ELSE g[n] ]

\* json.loads, the loop, json.dumps and the write through base64
_update_package_json(pkg, plan) ==
    [ dependencies    |-> update_group(pkg.dependencies, plan),
      devDependencies |-> update_group(pkg.devDependencies, plan) ]

\* requirements.txt: the text as output.decode().split("\n") gives it, a
\* sequence of lines; an entry line is name, operator, version
Blank == [ kind |-> "blank", name |-> "", op |-> "", version |-> 0 ]
Comment == [ kind |-> "comment", name |-> "", op |-> "", version |-> 0 ]
ReqLines ==
    [ kind : {"entry"}, name : Names, op : {"==", ">="}, version : {1} ]
        \cup {Blank, Comment}
ReqFiles == UNION { [1..n -> ReqLines] : n \in 1..MaxLines }

IsEntry(l) == l.kind = "entry"

\* mutant: an upgrade adds the new pin and keeps the old line
update_line_keeps_old(line, plan) ==
    IF ~IsEntry(line) \/ line.name \notin DOMAIN plan THEN <<line>>
    ELSE IF plan[line.name].action = "upgrade" /\ plan[line.name].target # NoTarget
    THEN <<line, [line EXCEPT !.op = "==", !.version = plan[line.name].target]>>
    ELSE IF plan[line.name].action = "keep" THEN <<line>>
    ELSE <<>>

\* the body of the loop of _update_requirements_txt: the lines appended to
\* updated_lines for one line
update_line(line, plan) ==
    IF ~IsEntry(line) \/ line.name \notin DOMAIN plan THEN <<line>>
    ELSE IF plan[line.name].action = "upgrade" /\ plan[line.name].target # NoTarget
    THEN <<[line EXCEPT !.op = "==", !.version = plan[line.name].target]>>
    ELSE IF plan[line.name].action = "keep" THEN <<line>>
    ELSE <<>>

RECURSIVE update_lines(_, _)
update_lines(lines, plan) ==
    IF lines = <<>> THEN <<>>
    ELSE update_line(Head(lines), plan) \o update_lines(Tail(lines), plan)

\* the file after _update_requirements_txt: "\n".join(updated_lines) written
\* with echo, which ends its output with a newline
_update_requirements_txt(lines, plan) ==
    Append(update_lines(lines, plan), Blank)

\* the dependency entries of a manifest
Entries(m, kind) ==
    IF kind = "requirements.txt" THEN SelectSeq(m, IsEntry) ELSE m

InitManifest ==
    /\ state = create_initial_state(0)
    /\ pc = "manifest"
    /\ prev = "none"
    /\ steps = 0
    /\ route_state = state
    /\ route_out = None
    /\ hist = NoHist
    /\ outcome = "running"
    /\ final_state = state
    /\ sandbox = NoSandbox /\ daemon = NoDaemon /\ registry = NoRegistry
    /\ \E plan \in ChangeSets :
          \/ \E m \in PackageJsons :
                manifest = [ kind |-> "package.json", orig |-> m, plan |-> plan,
                             cur |-> m, once |-> m, applied |-> 0 ]
          \/ \E m \in ReqFiles :
                manifest = [ kind |-> "requirements.txt", orig |-> m, plan |-> plan,
                             cur |-> m, once |-> m, applied |-> 0 ]

Applied(new) ==
    /\ pc = "manifest"
    /\ manifest.applied < 2
    /\ manifest' = [manifest EXCEPT !.cur = new, !.applied = @ + 1,
                                    !.once = IF manifest.applied = 0 THEN new ELSE @]
    /\ UNCHANGED <<wf, sandbox, daemon, registry>>

UpdatePackageJson ==
    /\ manifest.kind = "package.json"
    /\ Applied(_update_package_json(manifest.cur, manifest.plan))

UpdateRequirementsTxt ==
    /\ manifest.kind = "requirements.txt"
    /\ Applied(_update_requirements_txt(manifest.cur, manifest.plan))

NextManifest ==
    \/ UpdatePackageJson
    \/ UpdateRequirementsTxt

SpecManifest == InitManifest /\ [][NextManifest]_vars

\* ------------------------------------------- concurrent sandbox provisioning
\* Several runs provision their sandbox on the one Docker daemon at the same
\* time (start_migration hands each run to a worker thread).  Every call of
\* the Docker API in _create_container is one step; the calls of different
\* runs interleave.  A run's container is named after its project directory
\* and publishes the fixed port of its project type on the host.
MaxRuns == 2
Runs == 1..MaxRuns
ProjectNames == {"p", "q"}
NodePort == 3000
PythonPort == 5000
AppPorts == {NodePort, PythonPort}

NoError == 0
NameConflict == 1       \* containers.create: the name is already in use
NotFound == 2           \* the run's container no longer exists
PortAllocated == 3      \* container.start: the host port is already allocated

container_of(r, c) ==
    [ owner |-> r, name |-> c.name, port |-> c.port, running |-> FALSE ]

InitDaemon ==
    /\ pc = "daemon"
    /\ daemon \in { [ containers |-> {},
                      runs |-> cfg ] :
                    cfg \in [Runs -> [ pos : {"get"}, name : ProjectNames,
                                       port : AppPorts, error : {NoError} ]] }
    /\ prev = "none" /\ steps = 0 /\ route_out = None
    /\ state = create_initial_state(0)
    /\ route_state = state
    /\ final_state = state
    /\ hist = NoHist
    /\ outcome = "running"
    /\ sandbox = NoSandbox
    /\ manifest = NoManifest /\ registry = NoRegistry

DaemonCall(d) ==
    /\ pc = "daemon"
    /\ daemon' = d
    /\ UNCHANGED <<wf, sandbox, manifest, registry>>

\* client.containers.get(container_name) and old_container.remove(force=True):
\* whatever container has the name is removed; a missing one is passed over
RemoveOldContainer ==
    \E r \in Runs :
        /\ daemon.runs[r].pos = "get"
        /\ DaemonCall([daemon EXCEPT
              !.containers = { c \in @ : c.name # daemon.runs[r].name },
              !.runs[r].pos = "create"])

\* client.containers.create(name=container_name, ports=...): the daemon
\* refuses a name that is in use
ContainersCreate ==
    \E r \in Runs :
        /\ daemon.runs[r].pos = "create"
        /\ IF \E c \in daemon.containers : c.name = daemon.runs[r].name
           THEN DaemonCall([daemon EXCEPT !.runs[r].pos = "failed",
                                          !.runs[r].error = NameConflict])
           ELSE DaemonCall([daemon EXCEPT
                    !.containers = @ \cup {container_of(r, daemon.runs[r])},
                    !.runs[r].pos = "start"])

\* container.start(): the daemon binds the host port; the exception leaves
\* _create_container before self.containers.append
ContainerStart ==
    \E r \in Runs :
        /\ daemon.runs[r].pos = "start"
        /\ LET mine == { c \in daemon.containers : c.owner = r }
               bound == { c \in daemon.containers :
                            c.running /\ c.port = daemon.runs[r].port }
           IN  IF mine = {}
               THEN DaemonCall([daemon EXCEPT !.runs[r].pos = "failed",
                                              !.runs[r].error = NotFound])
               ELSE IF bound # {}
               THEN DaemonCall([daemon EXCEPT !.runs[r].pos = "failed",
                                              !.runs[r].error = PortAllocated])
               ELSE DaemonCall([daemon EXCEPT
                        !.containers = { IF c.owner = r
                                         THEN [c EXCEPT !.running = TRUE]
                                         ELSE c : c \in @ },
                        !.runs[r].pos = "validating"])

\* the phases of validate_project on the run's container and the finally
\* block: a container that is gone makes the phase raise, and
\* _cleanup_container stops and removes the run's own container
SessionEnds ==
    \E r \in Runs :
        /\ daemon.runs[r].pos = "validating"
        /\ DaemonCall([daemon EXCEPT
              !.containers = { c \in @ : c.owner # r },
              !.runs[r].pos = "done",
              !.runs[r].error = IF \E c \in daemon.containers : c.owner = r
                                THEN NoError ELSE NotFound])

NextDaemon ==
    \/ RemoveOldContainer
    \/ ContainersCreate
    \/ ContainerStart
    \/ SessionEnds

SpecDaemon == InitDaemon /\ [][NextDaemon]_vars

\* ------------------------------------------------------------ the run registry
\* migrations_db and the background tasks of the API.  The handlers are
\* coroutines that never await between their reads and writes of
\* migrations_db, so each is one step; run_workflow_task runs in a worker
\* thread and its assignments to the record interleave with the handlers.
\* registry.db[m] is the record of migration m (Absent when there is none),
\* registry.task[m] the position of its task, registry.files says whether
\* reports/ holds report files of the project (the runs are on one project).
\* Clients start up to MaxMigrations runs and poll or delete the first
\* MaxObserved of them.
MaxMigrations == 4
MaxObserved == 1
Ids == 1..MaxMigrations
Observed == { m \in Ids : m <= MaxObserved }
max_workers == 3

WorkflowStatuses == {"deployed", "validation_failed"}
Raise == "raise"
FinalStatuses == WorkflowStatuses \cup {"error"}

Absent ==
    [ status |-> "absent", result |-> FALSE, errors |-> "initial",
      completed_at |-> FALSE, reports |-> FALSE ]

\* the record start_migration stores, with the status it has when the
\* handler returns
migration_record ==
    [ status |-> "started", result |-> FALSE, errors |-> "initial",
      completed_at |-> FALSE, reports |-> FALSE ]

InitApi ==
    /\ pc = "api"
    /\ registry = [ db |-> [m \in Ids |-> Absent],
                    task |-> [m \in Ids |-> "none"],
                    files |-> FALSE ]
    /\ prev = "none" /\ steps = 0 /\ route_out = None
    /\ state = create_initial_state(0)
    /\ route_state = state
    /\ final_state = state
    /\ hist = NoHist
    /\ outcome = "running"
    /\ sandbox = NoSandbox
    /\ manifest = NoManifest /\ daemon = NoDaemon

ApiStep(reg) ==
    /\ pc = "api"
    /\ registry' = reg
    /\ UNCHANGED <<wf, sandbox, manifest, daemon>>

\* POST /api/migrations/start with a request that passes the handler's
\* checks: the record is stored under a fresh id and the task is added
start_migration ==
    \E m \in Ids :
        /\ registry.task[m] = "none"
        /\ \A k \in Ids : k < m => registry.task[k] # "none"
        /\ ApiStep([registry EXCEPT !.db[m] = migration_record,
                                    !.task[m] = "queued"])

\* run_workflow_task up to status "running": the record is read before the
\* try, and without it the task ends with KeyError
TaskRunning ==
    \E m \in Ids :
        /\ registry.task[m] = "queued"
        /\ IF registry.db[m] = Absent
           THEN ApiStep([registry EXCEPT !.task[m] = "crashed"])
           ELSE ApiStep([registry EXCEPT !.db[m].status = "running",
                                          !.task[m] = "workflow"])

\* run_workflow returned final_state and its status is stored, or it raised
\* and the except clause stores "error"
WorkflowReturns ==
    \E m \in Ids, out \in WorkflowStatuses \cup {Raise} :
        /\ registry.task[m] = "workflow"
        /\ IF out = Raise
           THEN ApiStep([registry EXCEPT !.db[m].status = "error",
                                          !.task[m] = "except"])
           ELSE ApiStep([registry EXCEPT !.db[m].status = out,
                                          !.task[m] = "publish"])

\* run_workflow_task, result, errors, completed_at and duration_seconds
PublishResult ==
    \E m \in Ids :
        /\ registry.task[m] = "publish"
        /\ IF registry.db[m] = Absent
           THEN ApiStep([registry EXCEPT !.task[m] = "crashed"])
           ELSE ApiStep([registry EXCEPT !.db[m].result = TRUE,
                                          !.db[m].errors = "final",
                                          !.db[m].completed_at = TRUE,
                                          !.task[m] = "reports"])

\* run_workflow_task, errors and completed_at of the except clause
ExceptClause ==
    \E m \in Ids :
        /\ registry.task[m] = "except"
        /\ IF registry.db[m] = Absent
           THEN ApiStep([registry EXCEPT !.task[m] = "crashed"])
           ELSE ApiStep([registry EXCEPT !.db[m].errors = "final",
                                          !.db[m].completed_at = TRUE,
                                          !.task[m] = "finished"])

\* report_generator.generate_all_reports writes the report files of the
\* project, or raises
GenerateReports ==
    \E m \in Ids, ok \in BOOLEAN :
        /\ registry.task[m] = "reports"
        /\ IF ok
           THEN ApiStep([registry EXCEPT !.files = TRUE, !.task[m] = "store"])
           ELSE ApiStep([registry EXCEPT !.task[m] = "finished"])

\* run_workflow_task, the report paths are stored; a KeyError is caught
\* with the failures of the report generation
StoreReports ==
    \E m \in Ids :
        /\ registry.task[m] = "store"
        /\ IF registry.db[m] = Absent
           THEN ApiStep([registry EXCEPT !.task[m] = "finished"])
           ELSE ApiStep([registry EXCEPT !.db[m].reports = TRUE,
                                          !.task[m] = "finished"])

\* GET /api/migrations/{id} of a record that exists
get_migration_status ==
    \E m \in Observed :
        /\ registry.db[m] # Absent
        /\ LET migration == registry.db[m]
           IN  IF /\ ~migration.reports
                  /\ migration.status \in {"deployed", "error"}
                  /\ registry.files
               THEN ApiStep([registry EXCEPT !.db[m].reports = TRUE])
               ELSE ApiStep(registry)

\* DELETE /api/migrations/{id} of a record that exists and is not "running"
delete_migration ==
    \E m \in Observed :
        /\ registry.db[m] # Absent
        /\ registry.db[m].status # "running"
        /\ ApiStep([registry EXCEPT !.db[m] = Absent])

NextApi ==
    \/ start_migration
    \/ TaskRunning
    \/ WorkflowReturns
    \/ PublishResult
    \/ ExceptClause
    \/ GenerateReports
    \/ StoreReports
    \/ get_migration_status
    \/ delete_migration

SpecApi == InitApi /\ [][NextApi]_vars

\* ================================================================ claims

\* C1: in every reachable state of a run driven by the workflow graph,
\* retry_count <= max_retries: in the state the graph keeps, in the dict
\* every routing function was called with, and in the state run_workflow
\* returns.
C1_RetryBound ==
    /\ state.retry_count <= state.max_retries
    /\ route_state.retry_count <= route_state.max_retries
    /\ final_state.retry_count <= final_state.max_retries

\* a retry edge was taken with the budget used up to its last unit
C1_Witness ==
    /\ prev = "analyze" /\ pc = "validate"
    /\ route_state.retry_count = route_state.max_retries
    /\ hist.runs["validate"] >= 1

\* C2: every run terminates after at most max_retries + 1 executions of the
\* Validate stage (stated as: Validate never runs more than max_retries + 1
\* times).
C2_ValidateBound ==
    hist.runs["validate"] <= state.max_retries + 1

\* C3: each time the run goes from Diagnose back to Validate, retry_count is
\* incremented by exactly one before Validate is re-entered, and it is
\* changed on no other transition.
C3_RetryIncrement ==
    [][ IF pc = "analyze" /\ pc' = "validate"
        THEN state'.retry_count = state.retry_count + 1
        ELSE state'.retry_count = state.retry_count ]_vars

\* C4: after Validate, routing is exactly: deploy if validation_success,
\* otherwise analyze if retry_count < max_retries, otherwise end; for every
\* combination of validation_success, retry_count and max_retries.
C4_RouteAfterValidate ==
    (pc = "routed" /\ prev = "should_retry_or_deploy") =>
        /\ state.validation_success => route_out = "deploy"
        /\ (~state.validation_success /\ state.retry_count < state.max_retries)
              => route_out = "analyze"
        /\ (~state.validation_success /\ state.retry_count >= state.max_retries)
              => route_out = "end"

\* the budget is used up and validation failed: routed to end
C4_Witness ==
    /\ pc = "routed" /\ prev = "should_retry_or_deploy"
    /\ ~state.validation_success
    /\ state.retry_count = state.max_retries /\ state.max_retries > 0
    /\ route_out = "end"

\* C5: with max_retries = 3, Validate failing on every attempt and Diagnose
\* always offering fixes, the run terminates on the third Validate failure
\* and Diagnose is never invoked a fourth time.
C5_ScenarioD ==
    (state.max_retries = 3 /\ hist.all_failed /\ hist.all_fixes /\ ~hist.sink_raised) =>
        /\ hist.runs["analyze"] < 4
        /\ hist.runs["validate"] <= 3
        /\ (hist.runs["validate"] = 3 /\ prev = "validate") => pc \in {"end", "done"}

\* C6: after Plan the run proceeds to Validate only if Plan succeeded (status
\* plan_created) and produced a non-empty plan; in every other case (planner
\* error result, planner exception, missing or empty plan) the run goes to
\* End and Validate is never executed.
C6_PlanGate ==
    /\ (prev = "plan" /\ pc = "validate") =>
          /\ state.status = "plan_created"
          /\ hist.planner = "success" /\ hist.plan \in {"nodeps", "deps"}
          /\ state.migration_plan = hist.plan
    /\ (hist.runs["plan"] > 0 /\ ~(hist.planner = "success" /\ hist.plan \in {"nodeps", "deps"})) =>
          /\ pc \in {"end", "done"}
          /\ hist.runs["validate"] = 0
    /\ hist.runs["validate"] > 0 => hist.plan \in {"nodeps", "deps"}

\* the planner succeeded with an empty plan and the run is at End
C6_Witness ==
    /\ prev = "plan" /\ pc = "end"
    /\ hist.planner = "success" /\ hist.plan = "empty"
    /\ state.status = "plan_created"

\* C7: if Diagnose produces no usable fix suggestion (empty or missing list,
\* or Diagnose failed), the run goes to End without re-entering Validate and
\* retry_count keeps the value it had before Diagnose ran.
C7_NoFixEnds ==
    [][ (pc = "analyze" /\ hist'.diagnosis # "fixes") =>
           /\ pc' \in {"end", "done"}
           /\ hist'.runs["validate"] = hist.runs["validate"]
           /\ state'.retry_count = state.retry_count
           /\ (pc' = "end" => route_state'.retry_count = state.retry_count)
           /\ (pc' = "done" => final_state'.retry_count = state.retry_count) ]_vars

\* Diagnose succeeded with an empty fix list after a failed Validate
C7_Witness ==
    /\ prev = "analyze" /\ pc = "end"
    /\ hist.diagnosis = "empty"
    /\ state.status = "analyzed"
    /\ hist.runs["validate"] = 1

\* C8: the deploy stage is executed only if the most recent Validate attempt
\* yielded a passing sandbox verdict (sandbox status success: install, start
\* and health check succeeded, tests skipped or passed; recommendation
\* proceed).
C8_DeployOnlyAfterPass ==
    /\ pc = "deploy" => (prev = "validate" /\ hist.verdict_ok)
    /\ hist.runs["deploy"] > 0 => hist.verdict_ok

\* deploy ran after a Validate that passed on a retry
C8_Witness ==
    /\ prev = "deploy" /\ hist.runs["deploy"] = 1
    /\ hist.runs["validate"] >= 2
    /\ hist.verdict_ok

\* the final statuses of a run (MigrationRun.terminal status; the list
\* test_full_workflow_execution asserts)
TerminalStatuses == {"deployed", "validated", "validation_failed", "error", "analyzed"}

\* C9: for any fault thrown by a stage's collaborator, run_workflow never
\* raises: it returns a run state whose status is terminal and whose error
\* list contains the fault message.
C9_FaultsContained ==
    (pc = "done" /\ hist.faults # {} /\ ~hist.sink_raised) =>
        /\ outcome = "returned"
        /\ final_state.status \in TerminalStatuses
        /\ \A f \in hist.faults : <<f, FaultMsg>> \in final_state.errors

\* C10: if the broadcaster raises when an event is emitted, the failure is
\* swallowed and the run still reaches End: run_workflow returns.
C10_SinkFailureSwallowed ==
    (pc = "done" /\ hist.sink_raised) => outcome = "returned"

\* C11: if a stage executor raises an exception, the run is converted to
\* terminal status error: no further stage runs after the faulting stage (no
\* Diagnose, no retry of Validate) and the final status is error.
C11_FaultEndsRun ==
    (hist.faults # {} /\ ~hist.sink_raised) =>
        /\ pc \in {"end", "done"}
        /\ (pc = "done" => (outcome = "returned" /\ final_state.status = "error"))

\* sum(agent_costs.values())
RECURSIVE SumCosts(_)
SumCosts(f) ==
    IF DOMAIN f = {} THEN 0
    ELSE LET a == CHOOSE x \in DOMAIN f : TRUE
         IN  f[a] + SumCosts([b \in (DOMAIN f) \ {a} |-> f[b]])

\* C12: cost accumulation is additive and never reset: after every stage
\* execution, retried Validate and Diagnose stages included, total_cost is the
\* sum of the entries of agent_costs, and no entry and no total decreases.
C12_CostLedger ==
    [][ /\ state'.total_cost = SumCosts(state'.agent_costs)
        /\ state'.total_cost >= state.total_cost
        /\ \A a \in DOMAIN state.agent_costs :
              /\ a \in DOMAIN state'.agent_costs
              /\ state'.agent_costs[a] >= state.agent_costs[a] ]_vars

\* C13: if the planner succeeds with a plan, the Validate result reports
\* status success with an overall assessment of proceed, and the stager
\* succeeds, the run ends deployed with validation_success true, the stager's
\* pr_url and total_cost = planner cost + validator cost; Diagnose never runs.
C13_HappyPath ==
    (/\ ~hist.sink_raised /\ hist.faults = {}
     /\ hist.planner = "success" /\ Truthy(hist.plan)
     /\ hist.runs["validate"] = 1
     /\ state.validation_result.kind = "result"
     /\ state.validation_result.status = "success"
     /\ state.validation_result.overall_assessment = "proceed") =>
        /\ hist.runs["analyze"] = 0 /\ pc # "analyze"
        /\ state.validation_success
        /\ (hist.runs["deploy"] = 1 /\ state.status # "deployment_failed") =>
              /\ state.status = "deployed"
              /\ "staging_deployer" \notin DOMAIN state.agent_costs =>
                    state.total_cost = state.agent_costs["migration_planner"]
                                         + state.agent_costs["runtime_validator"]
              /\ (pc = "done" /\ outcome = "returned") =>
                    /\ final_state.status = "deployed"
                    /\ final_state.validation_success
                    /\ final_state.pr_url = state.pr_url

\* C14: every run that reaches End has a final status in {deployed,
\* validated, validation_failed, error, analyzed}, whatever the stage
\* outcomes, a failed or faulted StageChange included.
C14_FinalStatus ==
    (pc = "done" /\ outcome = "returned") => final_state.status \in TerminalStatuses

\* the Validate attempts whose evidence a run state carries: validation_result
\* holds the result of one attempt, the last one that returned
EvidenceOf(s) ==
    IF s.validation_result.kind = "result" THEN {hist.runs["validate"]} ELSE {}

\* C15: when a run ends because retries are exhausted (every Validate failed,
\* every Diagnose offered fixes), the final state carries the diagnostic
\* evidence of every Validate attempt of the run, not only of the last one.
C15_EvidenceOfEveryAttempt ==
    (/\ pc = "done" /\ outcome = "returned"
     /\ ~hist.sink_raised /\ hist.faults = {}
     /\ hist.runs["validate"] >= 1
     /\ hist.all_failed /\ hist.all_fixes) =>
        \A k \in 1..hist.runs["validate"] : k \in EvidenceOf(final_state)

\* the last call ran a sandbox session
SessionRan == sandbox.last.op \in {"validate_project", "execute"}

C17_NoLeakOnProvisioningFailure ==
    (SessionRan /\ sandbox.last.container = NoContainer) =>
        \A c \in sandbox.last.made :
            c \notin sandbox.docker \/ c \in sandbox.last.tracked_after

\* C18: teardown is idempotent: _cleanup_container (or cleanup_all) called
\* again on a session that was already torn down does not raise and leaves
\* self.containers as it was.
C18_TeardownIdempotent ==
    /\ (/\ sandbox.last.op = "_cleanup_container"
        /\ ~sandbox.last.was_live
        /\ sandbox.last.container \notin sandbox.last.tracked_before) =>
          /\ ~sandbox.last.raised
          /\ sandbox.last.tracked_after = sandbox.last.tracked_before
          /\ sandbox.tracked = sandbox.last.tracked_before
    /\ (sandbox.last.op = "cleanup_all" /\ ~sandbox.last.was_live) =>
          /\ ~sandbox.last.raised
          /\ sandbox.last.tracked_after = sandbox.last.tracked_before
          /\ sandbox.tracked = sandbox.last.tracked_before

\* _cleanup_container was called on a container that a session returned and
\* that an earlier teardown had already removed
C18_Witness ==
    /\ sandbox.last.op = "_cleanup_container"
    /\ sandbox.last.container \in sandbox.handles
    /\ ~sandbox.last.was_live
    /\ sandbox.last.container \notin sandbox.last.tracked_before
    /\ sandbox.last.container \notin sandbox.docker

\* C19: if the install command exits non-zero, the start, health-check and
\* test phases are not attempted in that session, the verdict is not success,
\* and the install output is attached to the result as its only error entry.
C19_InstallFailureStops ==
    (SessionRan /\ sandbox.last.install_exit) =>
        /\ sandbox.last.report.attempted \cap {"start", "health", "tests"} = {}
        /\ "install" \in sandbox.last.report.attempted
        /\ sandbox.last.result.status = "error"
        /\ ~sandbox.last.result.install_success
        /\ sandbox.last.report.errors = <<InstallFailed>>
        /\ Head(sandbox.last.report.errors)[2] = "install output"

\* a session stopped at a failed install
C19_Witness ==
    /\ sandbox.last.op = "validate_project" /\ sandbox.last.install_exit
    /\ sandbox.last.result.build_success
    /\ sandbox.last.report.logs = {}

\* C20: the sandbox verdict is success if and only if install, start and
\* health check succeeded and the tests were skipped because none are
\* declared, or the declared tests passed.
C20_Verdict ==
    SessionRan =>
        ( sandbox.last.result.status = "success"
          <=> /\ sandbox.last.result.install_success
              /\ sandbox.last.result.runtime_success
              /\ sandbox.last.result.health_check_success
              /\ (~sandbox.last.declared \/ sandbox.last.tests = "pass") )

NotInPlan(l) == IsEntry(l) /\ l.name \notin DOMAIN manifest.plan

\* C22: change-set application does not alter a manifest entry whose name is
\* absent from the ChangeSet: every such entry is still there with its
\* version, in its dependency group.
C22_FrameOfApply ==
    /\ (manifest.kind = "package.json" /\ manifest.applied >= 1) =>
          \A g \in {"dependencies", "devDependencies"} :
             \A n \in Names \ DOMAIN manifest.plan :
                /\ n \in DOMAIN manifest.orig[g] <=> n \in DOMAIN manifest.cur[g]
                /\ n \in DOMAIN manifest.orig[g] =>
                      manifest.cur[g][n] = manifest.orig[g][n]
    /\ (manifest.kind = "requirements.txt" /\ manifest.applied >= 1) =>
          SelectSeq(manifest.cur, NotInPlan) = SelectSeq(manifest.orig, NotInPlan)

\* a package.json with an entry outside the plan was rewritten and changed
C22_Witness ==
    /\ manifest.kind = "package.json" /\ manifest.applied = 1
    /\ manifest.cur # manifest.orig
    /\ \E n \in Names \ DOMAIN manifest.plan : n \in DOMAIN manifest.cur.dependencies

\* the names a manifest has an entry for
NamesIn(m, kind) ==
    IF kind = "requirements.txt"
    THEN { m[i].name : i \in { j \in DOMAIN m : IsEntry(m[j]) } }
    ELSE DOMAIN m.dependencies \cup DOMAIN m.devDependencies

\* the versions a manifest gives a name, with the group or operator
PinsOf(m, kind, n) ==
    IF kind = "requirements.txt"
    THEN { <<m[i].op, m[i].version>> : i \in { j \in DOMAIN m : IsEntry(m[j]) /\ m[j].name = n } }
    ELSE { <<g, m[g][n]>> : g \in { h \in {"dependencies", "devDependencies"} : n \in DOMAIN m[h] } }

\* C27: for every entry of the ChangeSet the rewrite does what the action
\* says: upgrade pins the target version, remove deletes the entry from all
\* groups, keep leaves it unchanged; an entry is deleted only when its action
\* is remove (not for keep, an upgrade without target version or an
\* unrecognised action).
C27_ActionsApplied ==
    (manifest.kind # "none" /\ manifest.applied = 1) =>
        \A n \in NamesIn(manifest.orig, manifest.kind) :
            LET before == PinsOf(manifest.orig, manifest.kind, n)
                after  == PinsOf(manifest.cur, manifest.kind, n)
                act    == IF n \in DOMAIN manifest.plan THEN manifest.plan[n] ELSE
                             [action |-> "keep", target |-> NoTarget]
            IN  /\ act.action = "remove" => after = {}
                /\ act.action = "keep" => after = before
                /\ (act.action = "upgrade" /\ act.target # NoTarget) =>
                      /\ after # {}
                      /\ \A p \in after : p[2] = act.target
                /\ after = {} => act.action = "remove"

\* the edges of the graph: the successors create_workflow gives each node
GraphEdges ==
    { <<"plan", "validate">>, <<"validate", "deploy">>, <<"validate", "analyze">>,
      <<"analyze", "validate">> }

\* C28: the only stage transitions a run takes are Plan->Validate, Plan->End,
\* Validate->StageChange, Validate->Diagnose, Validate->End,
\* Diagnose->Validate, Diagnose->End and StageChange->End; Plan and
\* StageChange each execute at most once per run, and StageChange is always
\* followed by End whether staging succeeded or failed.
C28_Transitions ==
    /\ (prev \in Nodes /\ pc \in Nodes) => <<prev, pc>> \in GraphEdges
    /\ (prev = "none" /\ pc \in Nodes) => pc = "plan"
    /\ hist.runs["plan"] <= 1
    /\ hist.runs["deploy"] <= 1
    /\ prev = "deploy" => pc \in {"end", "done"}

\* a failed staging after a retry loop, followed by End
C28_Witness ==
    /\ prev = "deploy" /\ pc = "end"
    /\ state.status = "deployment_failed"
    /\ hist.runs["analyze"] >= 1 /\ hist.runs["validate"] >= 2

\* C29: within one sandbox session a phase is attempted only if every
\* earlier phase succeeded: start only after a successful install, the
\* health check only after a successful start, the tests only after a
\* successful health check.
C29_PhasesGated ==
    SessionRan =>
        /\ ("start" \in sandbox.last.report.attempted
                => sandbox.last.result.install_success)
        /\ ("health" \in sandbox.last.report.attempted
                => sandbox.last.result.runtime_success)
        /\ ("tests" \in sandbox.last.report.attempted
                => sandbox.last.result.health_check_success)

\* C23: provisioning a sandbox session for one run never removes or replaces
\* the live sandbox environment of another run that is concurrently
\* validating: a run that is validating still has the container it created.
C23_LiveSandboxUntouched ==
    \A r \in Runs :
        daemon.runs[r].pos = "validating" =>
            \E c \in daemon.containers : c.owner = r /\ c.running

\* C24: two sandbox sessions live at the same time never bind the same host
\* port, and a collision with a live session is resolved: provisioning does
\* not fail on it.
C24_PortCollisionResolved ==
    /\ \A c1, c2 \in daemon.containers :
          (c1.running /\ c2.running /\ c1.port = c2.port) => c1 = c2
    /\ \A r \in Runs : daemon.runs[r].error # PortAllocated

\* the tasks that are executing their workflow
Executing == { m \in Ids : registry.task[m] = "workflow" }

\* C25: at no time do more runs execute their workflow concurrently than the
\* fixed worker-pool size (3).
C25_PoolBound == Cardinality(Executing) <= max_workers

\* C26: get_migration_status is read-only: a call for any run id, in any run
\* state, leaves every record of migrations_db unchanged.
C26_GetIsReadOnly == [][get_migration_status => registry'.db = registry.db]_vars

\* the positions of a task that is still going to read or write its record
Pending == {"queued", "workflow", "publish", "except", "store"}

\* C30: a record whose status is a final workflow status already has the
\* result, errors and completed_at of the finished run (the result is left
\* out for a run that ended in "error"), and a record is never deleted while
\* its task is still going to read or write it.
C30_PublishedAtomically ==
    \A m \in Ids :
        /\ (registry.db[m].status \in FinalStatuses =>
               /\ registry.db[m].completed_at
               /\ registry.db[m].errors = "final"
               /\ (registry.db[m].result \/ registry.db[m].status = "error"))
        /\ (registry.task[m] \in Pending => registry.db[m] # Absent)

====
